---- MODULE Spec2Model ----
(***************************************************************************)
(* Model of app.py: the DWD hourly precipitation tool.  One request of    *)
(* either front end (Streamlit form or line mode) is a run of the state   *)
(* machine: for every registered station lade_daten fetches the archive,  *)
(* picks the data file, parses and filters it; generate_plot and          *)
(* generate_pdf render the filtered series.                                *)
(*                                                                         *)
(* Precipitation is counted in tenths of a millimetre (5.0 mm = 50).  A   *)
(* calendar date is the integer YYYYMMDD, MESS_DATUM the integer          *)
(* YYYYMMDDHH as in the feed.  An optional value is a sequence of length  *)
(* 0 (None) or 1.                                                          *)
(***************************************************************************)
EXTENDS Integers, Sequences, FiniteSets

\* ------------------------------------------------------------------ bounds

\* Longest data file (rows) of the station whose file is enumerated in full.
MaxRows == 2
\* Most members of an archive whose member list is enumerated in full.
MaxMembers == 2

\* ------------------------------------------------------------ value domain

\* pandas' missing value of the float column precip_mm.
NaN == [na |-> TRUE]
Num(v) == [na |-> FALSE, v |-> v]

\* The alert threshold of both renderers, 5 mm, in tenths.
ALERT == 50

\* All sequences over S of length at most n.
RECURSIVE BSeq(_, _)
BSeq(S, n) ==
    IF n = 0 THEN {<<>>}
    ELSE LET shorter == BSeq(S, n - 1)
         IN  shorter \cup {Append(s, x) : s \in {t \in shorter : Len(t) = n - 1}, x \in S}

\* -------------------------------------------------------- station registry

\* The registry, in insertion order (names in ASCII).
stationen ==
    << [name |-> "Hamburg-Neuwiedenthal", id |-> "01981", coords |-> "53.466, 9.933"],
       [name |-> "Hamburg-Fuhlsbuettel (Flughafen)", id |-> "01975", coords |-> "53.633, 10.000"] >>

NStations == Len(stationen)
StationIds == {stationen[k].id : k \in 1..NStations}

\* stationen[station_name]["coords"]
CoordsOf(station_name) ==
    LET k == CHOOSE j \in 1..NStations : stationen[j].name = station_name
    IN  stationen[k].coords

\* ------------------------------------------------------- the remote inputs

\* A member name is <stem>_<mid>_<sid>.<ext>.
ProduktName(mid, sid) == [stem |-> "produkt_rr_stunde", mid |-> mid, sid |-> sid, ext |-> "txt"]
MetaName(sid) == [stem |-> "Metadaten_Parameter_rr_stunde", mid |-> "", sid |-> sid, ext |-> "txt"]
MemberNames(sid) ==
    {ProduktName("20230505_20241104", sid), ProduktName("akt", sid), MetaName(sid)}

\* The R1 field of a row as text, and MESS_DATUM values of the feed.
RawTokens == {"-999", "0.0", "0.2", "5.0", "NA"}
Timestamps == {2024053123, 2024060100, 2024060101}
Row(md, r1) == [MESS_DATUM |-> md, R1 |-> r1]
RowPool == {Row(md, r1) : md \in Timestamps, r1 \in RawTokens}

\* Data files: every file of at most MaxRows rows, and a few fixed short ones.
Files == BSeq(RowPool, MaxRows)
SmallFiles ==
    { <<>>,
      <<Row(2024060100, "5.0")>>,
      <<Row(2024053123, "0.2")>>,
      <<Row(2024060124, "0.0")>> }   \* hour 24 does not exist: pandas rejects it
FileA == <<Row(2024060100, "5.0")>>
FileB == <<Row(2024060101, "0.2")>>

Member(name, rows) == [name |-> name, rows |-> rows]
PlainArchive(sid, rows) == <<Member(ProduktName("20230505_20241104", sid), rows)>>
Archives(sid) ==
    BSeq({Member(n, f) : n \in MemberNames(sid), f \in {FileA, FileB}}, MaxMembers)

\* What the user can enter: the date picker yields a date, input() a string.
Days == {20240531, 20240601}
InputStrings == {"2024-06-01", "2024-05-31", "01.06.2024"}

\* ------------------------------------------------------------- lade_daten

\* fnmatch.fnmatch(name, f"produkt_rr_stunde_*_{station_id}.txt")
fnmatch(name, station_id) ==
    name.stem = "produkt_rr_stunde" /\ name.sid = station_id /\ name.ext = "txt"

\* [name for name in zf.namelist() if fnmatch...]: indices, in container order.
RECURSIVE matching(_, _, _)
matching(zf, station_id, from) ==
    IF from > Len(zf) THEN <<>>
    ELSE IF fnmatch(zf[from].name, station_id)
         THEN <<from>> \o matching(zf, station_id, from + 1)
         ELSE matching(zf, station_id, from + 1)

\* [...][0]: the member that is opened, given a non-empty match list.
data_file(zf, station_id) == matching(zf, station_id, 1)[1]

\* Days of a month of the Gregorian calendar.
DaysIn(y, m) ==
    IF m \in {4, 6, 9, 11} THEN 30
    ELSE IF m = 2
         THEN IF (y % 4 = 0 /\ y % 100 # 0) \/ y % 400 = 0 THEN 29 ELSE 28
         ELSE 31

\* Whether pd.to_datetime(str(md), format="%Y%m%d%H") accepts md.
stamp_ok(md) ==
    LET y == md \div 1000000
        m == (md \div 10000) % 100
        d == (md \div 100) % 100
        h == md % 100
    IN  m \in 1..12 /\ d \in 1..DaysIn(y, m) /\ h \in 0..23

\* Variant: the format string lacks %H, so every row falls on hour 0.
to_datetime_dateonly(md) == [date |-> md \div 100, hour |-> 0]

\* pd.to_datetime of an accepted MESS_DATUM: the date and the hour.
to_datetime(md) == [date |-> md \div 100, hour |-> md % 100]

\* float() of the text of a numeric field, in tenths of a millimetre.
NumericTokens == {"-999", "0.0", "0.2", "5.0"}
FloatOf(tok) ==
    CASE tok = "-999" -> -9990
      [] tok = "0.0"  -> 0
      [] tok = "0.2"  -> 2
      [] tok = "5.0"  -> 50

\* pd.to_numeric(..., errors="coerce")
to_numeric(tok) == IF tok \in NumericTokens THEN Num(FloatOf(tok)) ELSE NaN

\* Variant: the mask is x <= 0, so a dry hour is lost as well.
mask_nonpositive(x) == IF ~x.na /\ x.v <= 0 THEN NaN ELSE x

\* .mask(lambda x: x < 0)
mask_negative(x) == IF ~x.na /\ x.v < 0 THEN NaN ELSE x

\* The two columns lade_daten keeps of one parsed row.
parse_row(row) ==
    [datetime |-> to_datetime(row.MESS_DATUM),
     precip_mm |-> mask_negative(to_numeric(row.R1))]

RECURSIVE parse_rows(_)
parse_rows(rows) ==
    IF rows = <<>> THEN <<>>
    ELSE <<parse_row(Head(rows))>> \o parse_rows(Tail(rows))

\* Variant: the comparison is >=, so later days are kept as well.
DayFilter_from(df, datum) == SelectSeq(df, LAMBDA r : r.datetime.date >= datum)

\* Variant: the boolean mask is shifted by one row, so a row is kept when
\* its predecessor lies on the day.
DayFilter_shifted(df, datum) ==
    LET keep == {k \in 2..Len(df) : df[k - 1].datetime.date = datum}
        nth(n) == CHOOSE k \in keep : Cardinality({m \in keep : m < k}) = n - 1
    IN  [n \in 1..Cardinality(keep) |-> df[nth(n)]]

\* df[df["datetime"].dt.date == datum]
RECURSIVE DayFilter(_, _)
DayFilter(df, datum) ==
    IF df = <<>> THEN <<>>
    ELSE IF Head(df).datetime.date = datum
         THEN <<Head(df)>> \o DayFilter(Tail(df), datum)
         ELSE DayFilter(Tail(df), datum)

\* lade_daten after the download: the returned frame, or the exception raised.
lade_daten(zf, datum, station_id) ==
    IF matching(zf, station_id, 1) = <<>>
    THEN [ok |-> FALSE, exc |-> "IndexError"]
    ELSE LET rows == zf[data_file(zf, station_id)].rows
         IN  IF \E k \in 1..Len(rows) : ~stamp_ok(rows[k].MESS_DATUM)
             THEN [ok |-> FALSE, exc |-> "ValueError"]
             ELSE [ok |-> TRUE, df |-> DayFilter(parse_rows(rows), datum)]

\* ----------------------------------------------------------- generate_plot

\* Variant: the comparison is >, so exactly 5.0 mm is not flagged.
BarColor_gt(val) == IF ~val.na /\ val.v > ALERT THEN "red" ELSE "skyblue"

\* "red" if val >= 5 else "skyblue"; a comparison with NaN is False.
BarColor(val) == IF ~val.na /\ val.v >= ALERT THEN "red" ELSE "skyblue"

RECURSIVE bars_of(_)
bars_of(df) ==
    IF df = <<>> THEN <<>>
    ELSE <<[x |-> Head(df).datetime.hour,
            height |-> Head(df).precip_mm,
            color |-> BarColor(Head(df).precip_mm)]>> \o bars_of(Tail(df))

generate_plot(df, datum, station_name) ==
    [station |-> station_name, datum |-> datum, bars |-> bars_of(df)]

\* The rectangles ax.bar puts on the canvas: one of NaN height has no extent.
DrawnBars(fig) == SelectSeq(fig.bars, LAMBDA b : ~b.height.na)

\* ------------------------------------------------------------ generate_pdf

\* df['precip_mm'].sum(): NaN is skipped, the empty sum is 0.
RECURSIVE series_sum(_)
series_sum(df) ==
    IF df = <<>> THEN 0
    ELSE (IF Head(df).precip_mm.na THEN 0 ELSE Head(df).precip_mm.v) + series_sum(Tail(df))

\* Variant: sum(skipna=False), one absent entry makes the total NaN.
total_of_propagating(df) ==
    IF \E k \in 1..Len(df) : df[k].precip_mm.na THEN NaN ELSE Num(series_sum(df))

total_of(df) == Num(series_sum(df))

\* pdf.set_text_color(200, 0, 0) if value >= 5 else (0, 0, 0)
TextColor(value) == IF value >= ALERT THEN <<200, 0, 0>> ELSE <<0, 0, 0>>

\* The loop over df.iterrows(): one cell per row that passes pd.notna.
RECURSIVE text_lines(_)
text_lines(df) ==
    IF df = <<>> THEN <<>>
    ELSE IF ~Head(df).precip_mm.na
         THEN <<[hour |-> Head(df).datetime.hour,
                 value |-> Head(df).precip_mm.v,
                 color |-> TextColor(Head(df).precip_mm.v)]>> \o text_lines(Tail(df))
         ELSE text_lines(Tail(df))

page_of(entry, datum) ==
    [station |-> entry.name,
     coords |-> CoordsOf(entry.name),
     datum |-> datum,
     total |-> total_of(entry.df),
     lines |-> text_lines(entry.df),
     image |-> entry.fig]

\* One page per entry of data_dict, in insertion order.
RECURSIVE generate_pdf(_, _)
generate_pdf(dict, datum) ==
    IF dict = <<>> THEN <<>>
    ELSE <<page_of(Head(dict), datum)>> \o generate_pdf(Tail(dict), datum)

\* ------------------------------------------------------------- the request

VARIABLES
    GUI,          \* whether streamlit was importable: which front end runs
    datum,        \* the user's input: a date (form) or a string (line mode)
    remote,       \* station id -> the archive the server holds during the request
    pc,           \* "start", "call", "zip", "ret", "show", "done"
    ctx,          \* which call site of lade_daten is active
    i,            \* position of the loop over stationen.items()
    parsed_date,  \* line mode: the date strptime returned, <<>> before
    zf,           \* lade_daten: the opened archive, <<>> before
    df,           \* lade_daten: the returned frame, <<>> before
    held,         \* line 128: the frame already evaluated for the "df" key
    data_dict,    \* the entries collected for generate_pdf, in insertion order
    pdf,          \* the pages of the written document, <<>> before
    out,          \* what the user has been shown so far, in order
    calls         \* the outbound requests and renderer invocations, in order

vars == <<GUI, datum, remote, pc, ctx, i, parsed_date, zf, df, held, data_dict, pdf, out, calls>>

\* datetime.strptime(datum, "%Y-%m-%d").date(), <<>> when it raises ValueError.
strptime(s) ==
    CASE s = "2024-06-01" -> <<20240601>>
      [] s = "2024-05-31" -> <<20240531>>
      [] OTHER -> <<>>

\* The date handed to lade_daten, generate_plot and generate_pdf.
Tag == IF GUI THEN datum ELSE parsed_date[1]

Event(kind, arg) == [kind |-> kind, arg |-> arg]
Call(op, station, n) == [op |-> op, station |-> station, n |-> n]

\* One station's archive is enumerated in full, the other holds a short file.
InitRows ==
    \E k \in 1..NStations, f \in Files, g \in SmallFiles :
        remote = [sid \in StationIds |->
                    IF sid = stationen[k].id THEN PlainArchive(sid, f)
                    ELSE PlainArchive(sid, g)]

InitArchives ==
    \E k \in 1..NStations, g \in SmallFiles :
        \E a \in Archives(stationen[k].id) :
            remote = [sid \in StationIds |->
                        IF sid = stationen[k].id THEN a ELSE PlainArchive(sid, g)]

Init ==
    /\ GUI \in BOOLEAN
    /\ datum \in (IF GUI THEN Days ELSE InputStrings)
    /\ InitRows \/ InitArchives
    /\ pc = "start"
    /\ ctx = "none"
    /\ i = 1
    /\ parsed_date = <<>>
    /\ zf = <<>>
    /\ df = <<>>
    /\ held = <<>>
    /\ data_dict = <<>>
    /\ pdf = <<>>
    /\ out = <<>>
    /\ calls = <<>>

\* The except clause of the active front end: one message, then the end.
Raise(exc) ==
    /\ out' = Append(out, Event(IF GUI THEN "st.error" ELSE "print_error", exc))
    /\ pc' = "done"

\* st.button("Daten anzeigen") pressed: the station loop starts.
ButtonClick ==
    /\ GUI /\ pc = "start"
    /\ pc' = "call" /\ ctx' = "gui" /\ i' = 1
    /\ data_dict' = <<>>
    /\ UNCHANGED <<GUI, datum, remote, parsed_date, zf, df, held, pdf, out, calls>>

\* input() answered: strptime, then the first loop starts.
ReadInput ==
    /\ ~GUI /\ pc = "start"
    /\ IF strptime(datum) = <<>>
       THEN /\ Raise("ValueError")
            /\ UNCHANGED <<ctx, i, parsed_date>>
       ELSE /\ parsed_date' = strptime(datum)
            /\ pc' = "call" /\ ctx' = "cli_loop" /\ i' = 1
            /\ UNCHANGED out
    /\ UNCHANGED <<GUI, datum, remote, zf, df, held, data_dict, pdf, calls>>

\* lade_daten, lines 26-28: one GET; the transport or the unzip may fail.
Fetch ==
    /\ pc = "call"
    /\ calls' = Append(calls, Call("requests.get", stationen[i].id, 0))
    /\ \/ /\ zf' = <<remote[stationen[i].id]>>
          /\ pc' = "zip"
          /\ UNCHANGED out
       \/ /\ \E exc \in {"ConnectionError", "BadZipFile"} : Raise(exc)
          /\ UNCHANGED zf
    /\ df' = <<>>
    /\ UNCHANGED <<GUI, datum, remote, ctx, i, parsed_date, held, data_dict, pdf>>

\* lade_daten, lines 29-35: pick the member, parse, normalise, filter.
Extract ==
    /\ pc = "zip"
    /\ LET r == lade_daten(zf[1], Tag, stationen[i].id)
       IN  IF r.ok
           THEN /\ df' = <<r.df>>
                /\ pc' = "ret"
                /\ UNCHANGED out
           ELSE /\ Raise(r.exc)
                /\ UNCHANGED df
    /\ UNCHANGED <<GUI, datum, remote, ctx, i, parsed_date, zf, held, data_dict, pdf, calls>>

\* Variant: the emptiness check is lost, every frame counts as non-empty.
df_empty_never(frame) == FALSE

\* df.empty
df_empty(frame) == Len(frame) = 0

\* Form, lines 91-94: plot and keep a non-empty frame, go on to the next station.
GuiCollect ==
    /\ pc = "ret" /\ ctx = "gui"
    /\ LET name == stationen[i].name
       IN  IF ~df_empty(df[1])
           THEN /\ calls' = Append(calls, Call("generate_plot", name, Len(df[1])))
                /\ data_dict' = Append(data_dict,
                       [name |-> name, df |-> df[1], fig |-> generate_plot(df[1], Tag, name)])
           ELSE UNCHANGED <<calls, data_dict>>
    /\ IF i < NStations THEN i' = i + 1 /\ pc' = "call" ELSE i' = i /\ pc' = "show"
    /\ zf' = <<>> /\ df' = <<>>
    /\ UNCHANGED <<GUI, datum, remote, ctx, parsed_date, held, pdf, out>>

\* What lines 99-103 show for the collected stations.
RECURSIVE shown(_)
shown(dict) ==
    IF dict = <<>> THEN <<>>
    ELSE << Event("st.subheader", Head(dict).name),
            Event("st.dataframe", Head(dict).name),
            Event("st.pyplot", Head(dict).name) >> \o shown(Tail(dict))

\* Form, lines 96-112: the message, or the tables, charts and both downloads.
GuiShow ==
    /\ pc = "show"
    /\ IF data_dict = <<>>
       THEN /\ out' = Append(out, Event("st.info", "Keine Daten"))
            /\ UNCHANGED <<pdf, calls>>
       ELSE /\ pdf' = <<generate_pdf(data_dict, Tag)>>
            /\ calls' = Append(calls, Call("generate_pdf", "", Len(data_dict)))
            /\ out' = out \o shown(data_dict)
                          \o << Event("st.download_button", "csv"),
                                Event("st.download_button", "pdf") >>
    /\ pc' = "done"
    /\ UNCHANGED <<GUI, datum, remote, ctx, i, parsed_date, zf, df, held, data_dict>>

\* Line mode, lines 121-127: print the frame or the note, then the next station.
CliPrint ==
    /\ pc = "ret" /\ ctx = "cli_loop"
    /\ LET name == stationen[i].name
           lines == IF df_empty(df[1])
                    THEN <<Event("print_keine_daten", name)>>
                    ELSE <<Event("print_header", name), Event("print_df", name)>>
       IN  IF i < NStations
           THEN /\ out' = out \o lines
                /\ i' = i + 1 /\ ctx' = ctx
           ELSE /\ out' = (out \o lines) \o <<Event("print_pdf_wird_erstellt", "")>>
                /\ i' = 1 /\ ctx' = "cli_df"
    /\ pc' = "call"
    /\ zf' = <<>> /\ df' = <<>>
    /\ UNCHANGED <<GUI, datum, remote, parsed_date, held, data_dict, pdf, calls>>

\* Line 128, the "df" key of a station: the frame of a second download.
CliDf ==
    /\ pc = "ret" /\ ctx = "cli_df"
    /\ held' = df
    /\ ctx' = "cli_fig" /\ pc' = "call"
    /\ zf' = <<>> /\ df' = <<>>
    /\ UNCHANGED <<GUI, datum, remote, i, parsed_date, data_dict, pdf, out, calls>>

\* Line 128, the "fig" key: a third download is plotted; after the last
\* station generate_pdf runs and line 129 prints the path.
CliFig ==
    /\ pc = "ret" /\ ctx = "cli_fig"
    /\ LET name == stationen[i].name
           dict == Append(data_dict,
                       [name |-> name, df |-> held[1], fig |-> generate_plot(df[1], Tag, name)])
           plotted == Append(calls, Call("generate_plot", name, Len(df[1])))
       IN  /\ data_dict' = dict
           /\ IF i < NStations
              THEN /\ i' = i + 1 /\ ctx' = "cli_df" /\ pc' = "call"
                   /\ calls' = plotted
                   /\ UNCHANGED <<pdf, out>>
              ELSE /\ i' = i /\ ctx' = ctx /\ pc' = "done"
                   /\ pdf' = <<generate_pdf(dict, Tag)>>
                   /\ calls' = Append(plotted, Call("generate_pdf", "", Len(dict)))
                   /\ out' = Append(out, Event("print_pdf_gespeichert", ""))
    /\ zf' = <<>> /\ df' = <<>> /\ held' = <<>>
    /\ UNCHANGED <<GUI, datum, remote, parsed_date>>

Next ==
    \/ ButtonClick
    \/ ReadInput
    \/ Fetch
    \/ Extract
    \/ GuiCollect
    \/ GuiShow
    \/ CliPrint
    \/ CliDf
    \/ CliFig

Spec == Init /\ [][Next]_vars

\* ------------------------------------------------- vocabulary of the checks

\* lade_daten is about to return: the opened archive and the frame both exist.
AtReturn == pc = "ret"

\* The station whose turn it is, and the rows of the member lade_daten read.
CurrentId == stationen[i].id
SourceRows == zf[1][data_file(zf[1], CurrentId)].rows

\* Positions of the source rows whose MESS_DATUM lies on the day, and the
\* k-th of them in file order.
OnDay(rows, day) == {j \in 1..Len(rows) : rows[j].MESS_DATUM \div 100 = day}
NthOnDay(rows, day, k) ==
    CHOOSE j \in OnDay(rows, day) : Cardinality({m \in OnDay(rows, day) : m < j}) = k - 1

\* Sum of the present values of a frame, by position.
RECURSIVE SumPresent(_, _)
SumPresent(frame, n) ==
    IF n = 0 THEN 0
    ELSE SumPresent(frame, n - 1) + (IF frame[n].precip_mm = NaN THEN 0 ELSE frame[n].precip_mm.v)

Present(frame) == {k \in 1..Len(frame) : frame[k].precip_mm # NaN}

IdOf(station_name) ==
    LET k == CHOOSE j \in 1..NStations : stationen[j].name = station_name
    IN  stationen[k].id

Kinds(evs) == {evs[k].kind : k \in 1..Len(evs)}
ErrorKinds == {"st.error", "print_error"}
ResultKinds ==
    {"st.subheader", "st.dataframe", "st.pyplot", "st.download_button",
     "print_header", "print_df", "print_pdf_gespeichert"}
Errors == {k \in 1..Len(out) : out[k].kind \in ErrorKinds}
FetchFailed == \E k \in Errors : out[k].arg \in {"ConnectionError", "BadZipFile"}
Fetches == SelectSeq(calls, LAMBDA c : c.op = "requests.get")

\* ----------------------------------------------------------------------- C1

\* C1: in the frame lade_daten returns, a row whose raw R1 is not a number or
\* is a number below 0 has no precip_mm (NaN: neither negative nor 0), and a
\* row whose raw R1 is a number >= 0 has exactly that number.
C1_SentinelBecomesNoData ==
    AtReturn =>
        /\ Len(df[1]) = Cardinality(OnDay(SourceRows, Tag))
        /\ \A k \in 1..Len(df[1]) :
              LET tok == SourceRows[NthOnDay(SourceRows, Tag, k)].R1
              IN  IF tok \in NumericTokens /\ FloatOf(tok) >= 0
                  THEN df[1][k].precip_mm = Num(FloatOf(tok))
                  ELSE df[1][k].precip_mm = NaN

\* A returned frame with a sentinel row (absent) next to a 0.0 row (kept as 0).
C1_Witness ==
    /\ AtReturn
    /\ Len(df[1]) = 2
    /\ SourceRows[1].R1 = "-999" /\ df[1][1].precip_mm = NaN
    /\ SourceRows[2].R1 = "0.0" /\ df[1][2].precip_mm = Num(0)

\* ----------------------------------------------------------------------- C2

\* C2: lade_daten returns exactly the source rows of the requested day, in
\* file order, and a day without rows gives an empty frame: the only failures
\* after the download are a missing member and a malformed MESS_DATUM.
C2_ExactlyTheDay ==
    /\ AtReturn =>
          /\ \A k \in 1..Len(df[1]) : df[1][k].datetime.date = Tag
          /\ Len(df[1]) = Cardinality(OnDay(SourceRows, Tag))
          /\ \A k \in 1..Len(df[1]) :
                LET md == SourceRows[NthOnDay(SourceRows, Tag, k)].MESS_DATUM
                IN  df[1][k].datetime = [date |-> md \div 100, hour |-> md % 100]
    /\ (pc = "done" /\ zf # <<>> /\ Errors # {}) =>
          \/ \A m \in 1..Len(zf[1]) : ~fnmatch(zf[1][m].name, CurrentId)
          \/ \E k \in 1..Len(SourceRows) : SourceRows[k].MESS_DATUM % 100 > 23

\* A file with a row of another day before a row of the day: one row returned.
C2_Witness ==
    /\ AtReturn
    /\ Len(SourceRows) = 2
    /\ SourceRows[1].MESS_DATUM \div 100 # Tag
    /\ SourceRows[2].MESS_DATUM \div 100 = Tag
    /\ Len(df[1]) = 1

\* A file without a row of the day: the empty frame is returned.
C2_WitnessEmpty ==
    /\ AtReturn
    /\ Len(SourceRows) = 2
    /\ df[1] = <<>>

\* ----------------------------------------------------------------------- C9

\* C9 as stated: the returned series never holds two measurements of the same
\* hour, and all its measurements lie on the same day.
C9_Original ==
    AtReturn =>
        /\ \A j, k \in 1..Len(df[1]) :
              j # k => df[1][j].datetime.hour # df[1][k].datetime.hour
        /\ \A j, k \in 1..Len(df[1]) : df[1][j].datetime.date = df[1][k].datetime.date

\* C9 (amended): all measurements of the returned series lie on the requested
\* day; the series holds one measurement per source row of that day, so at
\* most one per hour when the source file repeats no MESS_DATUM.
C9_OnePerSourceRow ==
    AtReturn =>
        /\ \A k \in 1..Len(df[1]) :
              df[1][k].datetime.date = Tag /\ df[1][k].datetime.hour \in 0..23
        /\ \A h \in 0..23 :
              Cardinality({k \in 1..Len(df[1]) : df[1][k].datetime.hour = h})
                = Cardinality({j \in OnDay(SourceRows, Tag) : SourceRows[j].MESS_DATUM % 100 = h})
        /\ (\A j, k \in 1..Len(SourceRows) :
                j # k => SourceRows[j].MESS_DATUM # SourceRows[k].MESS_DATUM)
           => \A j, k \in 1..Len(df[1]) :
                j # k => df[1][j].datetime.hour # df[1][k].datetime.hour

\* A file with two rows of different hours of the day: two measurements.
C9_Witness ==
    /\ AtReturn
    /\ Len(df[1]) = 2
    /\ df[1][1].datetime.hour # df[1][2].datetime.hour

\* ---------------------------------------------------------------------- C10

\* C10: filtering a frame that was already filtered by a day by the same day
\* again returns it unchanged: for the returned frame and the requested day,
\* and for the parsed file and every day.
C10_FilterIdempotent ==
    AtReturn =>
        /\ DayFilter(df[1], Tag) = df[1]
        /\ \A d \in Days :
              LET once == DayFilter(parse_rows(SourceRows), d)
              IN  DayFilter(once, d) = once

\* A returned frame of one row, from a file that also had a row to drop.
C10_Witness ==
    /\ AtReturn
    /\ Len(df[1]) = 1
    /\ Len(SourceRows) = 2
    /\ DayFilter(df[1], Tag) = df[1]

\* ----------------------------------------------------------------------- C3

\* The frame lade_daten yields for a station from the archive the server holds.
SeriesOf(station_name) ==
    lade_daten(remote[IdOf(station_name)], Tag, IdOf(station_name)).df

\* C3: on every page of the document the printed total is the sum of the
\* present precip_mm values of that station's series, absent entries adding
\* nothing; it is 0.0 when no entry is present.
C3_TotalIsSumOfPresent ==
    pdf # <<>> =>
        /\ Len(pdf[1]) = Len(data_dict)
        /\ \A k \in 1..Len(pdf[1]) :
              LET page == pdf[1][k]
                  series == SeriesOf(page.station)
              IN  /\ page.station = data_dict[k].name
                  /\ data_dict[k].df = series
                  /\ page.total = Num(SumPresent(series, Len(series)))
                  /\ (Present(series) = {} => page.total = Num(0))

\* A document of two pages with different totals, one of them over a series
\* that has an absent entry next to a present one.
C3_Witness ==
    /\ pdf # <<>>
    /\ Len(pdf[1]) = 2
    /\ pdf[1][1].total # pdf[1][2].total
    /\ \E k \in 1..2 :
          /\ Len(data_dict[k].df) = 2
          /\ Cardinality(Present(data_dict[k].df)) = 1
          /\ pdf[1][k].total = Num(2)

\* ----------------------------------------------------------------------- C4

NthPresent(frame, k) ==
    CHOOSE j \in Present(frame) : Cardinality({m \in Present(frame) : m < j}) = k - 1

C5_Original ==
    (pc = "done" /\ FetchFailed) =>
        /\ Cardinality(Errors) = 1
        /\ pdf = <<>>
        /\ Kinds(out) \cap ResultKinds = {}

\* ----------------------------------------------------------------------- C6

\* Every station's archive is readable and holds no row of the requested day,
\* and no download failed.
ZeroRowsRequest ==
    /\ pc = "done"
    /\ GUI \/ parsed_date # <<>>
    /\ ~FetchFailed
    /\ \A n \in 1..NStations :
          LET r == lade_daten(remote[stationen[n].id], Tag, stationen[n].id)
          IN  r.ok /\ r.df = <<>>

NoDataReported ==
    IF GUI THEN "st.info" \in Kinds(out)
    ELSE \A n \in 1..NStations :
            \E k \in 1..Len(out) :
                out[k] = Event("print_keine_daten", stationen[n].name)

NoRenderOfEmptySeries ==
    /\ \A k \in 1..Len(calls) : calls[k].op = "generate_plot" => calls[k].n > 0
    /\ pdf # <<>> => \A n \in 1..Len(data_dict) : data_dict[n].df # <<>>

\* C6 as stated: a request for a day without rows ends in the "no data"
\* outcome, not in the error outcome, and generate_plot and generate_pdf are
\* never invoked on an empty series.
C6_Original ==
    /\ ZeroRowsRequest => NoDataReported /\ Errors = {}
    /\ NoRenderOfEmptySeries

\* C6 (amended): a request for a day without rows reports "no data" and no
\* error in both front ends.  The form then renders nothing and never
\* renders an empty series.  Line mode goes on to invoke generate_plot and
\* generate_pdf on the empty series: one page per station with total 0.0, no
\* text line and a chart without bars.
C6_NoDataOutcome ==
    /\ ZeroRowsRequest =>
          /\ NoDataReported /\ Errors = {}
          /\ GUI => /\ out = <<Event("st.info", "Keine Daten")>>
                    /\ pdf = <<>>
                    /\ \A k \in 1..Len(calls) : calls[k].op = "requests.get"
          /\ ~GUI => /\ pdf # <<>>
                     /\ Len(pdf[1]) = NStations
                     /\ \A n \in 1..NStations :
                           /\ pdf[1][n].station = stationen[n].name
                           /\ pdf[1][n].total = Num(0)
                           /\ pdf[1][n].lines = <<>>
                           /\ pdf[1][n].image.bars = <<>>
    /\ GUI => NoRenderOfEmptySeries

\* Line mode finished a request for a day without rows and wrote a document.
C6_Witness ==
    /\ ZeroRowsRequest
    /\ ~GUI
    /\ pdf # <<>>
    /\ \E n \in 1..NStations : Len(remote[stationen[n].id][1].rows) = 2

\* ----------------------------------------------------------------------- C7

\* C7 as stated: an archive without a matching member makes lade_daten fail
\* with a purpose-built "data file not found" error, not with an indexing
\* failure; otherwise the first matching member in container order is parsed.
C7_Original ==
    /\ (pc = "done" /\ zf # <<>>
          /\ \A m \in 1..Len(zf[1]) : ~fnmatch(zf[1][m].name, CurrentId))
       => \A k \in Errors : out[k].arg # "IndexError"
    /\ AtReturn =>
          LET hits == {m \in 1..Len(zf[1]) : fnmatch(zf[1][m].name, CurrentId)}
              first == CHOOSE m \in hits : \A o \in hits : m <= o
          IN  df[1] = DayFilter(parse_rows(zf[1][first].rows), Tag)

\* ----------------------------------------------------------------------- C8

\* C8 as stated: a request downloads each registered station's archive
\* exactly once, in registry order, and never one station twice.
C8_Original ==
    /\ \A j, k \in 1..Len(Fetches) : j # k => Fetches[j].station # Fetches[k].station
    /\ (pc = "done" /\ Errors = {}) =>
          /\ Len(Fetches) = NStations
          /\ \A n \in 1..NStations : Fetches[n].station = stationen[n].id

====
